---- MODULE Spec2Model ----
(***************************************************************************)
(* Model of the recipe-explorer worker, src/src/index.ts lines 1-205: the  *)
(* router `fetch`, the handlers getRecipeFromAI and getImageFromWeb, and   *)
(* the library conversions they rest on (JSON.stringify, JSON.parse, the   *)
(* Response and Headers constructors, object spread).                      *)
(*                                                                         *)
(* Text is modelled as a sequence of units.  The characters that JSON      *)
(* treats specially (quote, backslash, newline, space, braces, brackets,   *)
(* colon, comma) are units of their own; a run of ordinary characters is   *)
(* one unit.  A JavaScript string is such a sequence too.                  *)
(*                                                                         *)
(* JSON values are those of the types the recipe schema and the search     *)
(* response use (strings, arrays, objects) and null; numbers and booleans  *)
(* occur in none of the inputs and are left out of the grammar.            *)
(***************************************************************************)
EXTENDS Integers, Sequences, FiniteSets, TLC

\* ------------------------------------------------------------------ bounds

\* Largest number of ingredients of a recipe the completion service returns.
MaxIngredients == 2
\* Largest number of items in a search response.
MaxItems == 2
\* Number of requests in flight at once (specification SpecConc).
NReq == 2

\* ------------------------------------------------------- JavaScript values

QUOTE == "\""
BSL == "\\"
NL == "\n"
SP == " "

JNull == <<"null", <<>>>>
JUndef == <<"undef", <<>>>>
JStr(s) == <<"str", s>>
JArr(a) == <<"arr", a>>
\* An object: its own enumerable string-keyed properties, in property order.
JObj(m) == <<"obj", m>>

\* A parameter check that tests only for null (`x === null`).
Truthy_EmptyIsTrue(v) == v[1] \notin {"null", "undef"}

\* ToBoolean on the values the handlers test with `!x` / `if (x)`.
Truthy(v) ==
  CASE v[1] = "null" -> FALSE
    [] v[1] = "undef" -> FALSE
    [] v[1] = "str" -> v[2] # <<>>
    [] OTHER -> TRUE

\* What a throw carries: an Error with a message, or some other value.
JError(m) == <<"Error", m>>
NonError == <<"NonError", <<>>>>
Ok(v) == <<"ok", v>>
Throw(e) == <<"throw", e>>

\* ---------------------------------------------------------- JSON.stringify

Spaces(n) == [i \in 1..n |-> SP]

RECURSIVE Flatten(_)
Flatten(ss) == IF ss = <<>> THEN <<>> ELSE Head(ss) \o Flatten(Tail(ss))

\* join(parts, sep)
RECURSIVE Join(_, _)
Join(parts, sep) ==
  IF parts = <<>> THEN <<>>
  ELSE IF Len(parts) = 1 THEN parts[1]
  ELSE parts[1] \o sep \o Join(Tail(parts), sep)

QuoteUnit(u) ==
  CASE u = QUOTE -> <<BSL, QUOTE>>
    [] u = BSL -> <<BSL, BSL>>
    [] u = NL -> <<BSL, "n">>
    [] OTHER -> <<u>>

\* QuoteJSONString
QuoteJSONString(s) ==
  <<QUOTE>> \o Flatten([i \in 1..Len(s) |-> QuoteUnit(s[i])]) \o <<QUOTE>>

\* Wrap the serialized members in the brackets, as SerializeJSONObject and
\* SerializeJSONArray do: compact when gap = 0, one member per line otherwise.
Bracket(open, close, partial, gap, indent) ==
  IF partial = <<>> THEN <<open, close>>
  ELSE IF gap = 0 THEN <<open>> \o Join(partial, <<",">>) \o <<close>>
  ELSE <<open, NL>> \o Spaces(indent + gap)
       \o Join(partial, <<",", NL>> \o Spaces(indent + gap))
       \o <<NL>> \o Spaces(indent) \o <<close>>

RECURSIVE SerializeJSONProperty(_, _, _)
SerializeJSONProperty(v, gap, indent) ==
  CASE v[1] = "null" -> <<"null">>
    [] v[1] = "str" -> QuoteJSONString(v[2])
    [] v[1] = "arr" ->
         Bracket("[", "]",
           [i \in 1..Len(v[2]) |->
              IF v[2][i][1] = "undef" THEN <<"null">>
              ELSE SerializeJSONProperty(v[2][i], gap, indent + gap)],
           gap, indent)
    [] v[1] = "obj" ->
         LET kept == SelectSeq(v[2], LAMBDA kv : kv[2][1] # "undef")
         IN Bracket("{", "}",
              [i \in 1..Len(kept) |->
                 QuoteJSONString(kept[i][1]) \o <<":">>
                 \o (IF gap = 0 THEN <<>> ELSE <<SP>>)
                 \o SerializeJSONProperty(kept[i][2], gap, indent + gap)],
              gap, indent)

\* JSON.stringify(value, null, gap): gap = 0 is JSON.stringify(value).
JSONstringify(v, gap) == SerializeJSONProperty(v, gap, 0)

\* -------------------------------------------------------------- JSON.parse

SyntaxErrorMsg == <<"Unexpected token in JSON">>

IsWs(u) == u \in {SP, NL}

RECURSIVE SkipWs(_, _)
SkipWs(t, i) == IF i <= Len(t) /\ IsWs(t[i]) THEN SkipWs(t, i + 1) ELSE i

Fail == [ok |-> FALSE, val |-> JNull, pos |-> 0]
Got(v, p) == [ok |-> TRUE, val |-> v, pos |-> p]

\* A string's units after the opening quote, up to the closing one.
RECURSIVE ParseString(_, _, _)
ParseString(t, i, acc) ==
  IF i > Len(t) THEN Fail
  ELSE IF t[i] = QUOTE THEN Got(acc, i + 1)
  ELSE IF t[i] = NL THEN Fail
  ELSE IF t[i] = BSL THEN
    IF i + 1 > Len(t) THEN Fail
    ELSE IF t[i + 1] \in {QUOTE, BSL} THEN ParseString(t, i + 2, Append(acc, t[i + 1]))
    ELSE IF t[i + 1] = "n" THEN ParseString(t, i + 2, Append(acc, NL))
    ELSE Fail
  ELSE ParseString(t, i + 1, Append(acc, t[i]))

\* Defining a property on the object under construction: a key already there
\* keeps its place and takes the new value.
SetProperty(m, k, v) ==
  IF \E j \in 1..Len(m) : m[j][1] = k
  THEN [j \in 1..Len(m) |-> IF m[j][1] = k THEN <<k, v>> ELSE m[j]]
  ELSE Append(m, <<k, v>>)

RECURSIVE ParseValue(_, _), ParseMembers(_, _, _), ParseElements(_, _, _)
ParseValue(t, i0) ==
  LET i == SkipWs(t, i0)
  IN IF i > Len(t) THEN Fail
     ELSE IF t[i] = "null" THEN Got(JNull, i + 1)
     ELSE IF t[i] = QUOTE THEN
       LET s == ParseString(t, i + 1, <<>>)
       IN IF s.ok THEN Got(JStr(s.val), s.pos) ELSE Fail
     ELSE IF t[i] = "{" THEN
       LET j == SkipWs(t, i + 1)
       IN IF j <= Len(t) /\ t[j] = "}" THEN Got(JObj(<<>>), j + 1)
          ELSE ParseMembers(t, j, <<>>)
     ELSE IF t[i] = "[" THEN
       LET j == SkipWs(t, i + 1)
       IN IF j <= Len(t) /\ t[j] = "]" THEN Got(JArr(<<>>), j + 1)
          ELSE ParseElements(t, j, <<>>)
     ELSE Fail

\* At position i a member `"key" : value` must start.
ParseMembers(t, i0, acc) ==
  LET i == SkipWs(t, i0)
  IN IF i > Len(t) \/ t[i] # QUOTE THEN Fail
     ELSE LET k == ParseString(t, i + 1, <<>>)
          IN IF ~k.ok THEN Fail
             ELSE LET c == SkipWs(t, k.pos)
                  IN IF c > Len(t) \/ t[c] # ":" THEN Fail
                     ELSE LET v == ParseValue(t, c + 1)
                          IN IF ~v.ok THEN Fail
                             ELSE LET e == SkipWs(t, v.pos)
                                      m == SetProperty(acc, k.val, v.val)
                                  IN IF e > Len(t) THEN Fail
                                     ELSE IF t[e] = "}" THEN Got(JObj(m), e + 1)
                                     ELSE IF t[e] = "," THEN ParseMembers(t, e + 1, m)
                                     ELSE Fail

ParseElements(t, i0, acc) ==
  LET v == ParseValue(t, i0)
  IN IF ~v.ok THEN Fail
     ELSE LET e == SkipWs(t, v.pos)
              a == Append(acc, v.val)
          IN IF e > Len(t) THEN Fail
             ELSE IF t[e] = "]" THEN Got(JArr(a), e + 1)
             ELSE IF t[e] = "," THEN ParseElements(t, e + 1, a)
             ELSE Fail

\* JSON.parse(text): the value, or a thrown SyntaxError.
JSONparse(t) ==
  LET r == ParseValue(t, 1)
  IN IF r.ok /\ SkipWs(t, r.pos) > Len(t) THEN Ok(r.val)
     ELSE Throw(JError(SyntaxErrorMsg))

\* ------------------------------------------- Headers, Response, object spread

\* Header names are case-insensitive: a Headers object keeps them lower-cased.
Lower(name) ==
  CASE name = "Content-Type" -> "content-type"
    [] name = "Access-Control-Allow-Origin" -> "access-control-allow-origin"
    [] name = "Access-Control-Allow-Methods" -> "access-control-allow-methods"
    [] name = "Access-Control-Allow-Headers" -> "access-control-allow-headers"
    [] OTHER -> name

\* An object literal with these own enumerable properties.
PlainObject(props) == <<"plain", props>>
\* A Headers instance: the header list is internal state, reached through the
\* prototype's get/has/entries; the instance has no own enumerable property.
HeadersObject(list) == <<"Headers", list>>

OwnEnumerableProperties(o) == IF o[1] = "plain" THEN o[2] ELSE <<>>

\* { ...a, ...b }: the own enumerable properties of a, then those of b over them.
Spread(a, b) ==
  PlainObject(OwnEnumerableProperties(b) @@ OwnEnumerableProperties(a))

\* new Headers(init) for an object literal init.
NewHeaders(init) ==
  LET props == OwnEnumerableProperties(init)
  IN [n \in {Lower(k) : k \in DOMAIN props} |->
        props[CHOOSE k \in DOMAIN props : Lower(k) = n]]

HeadersHas(list, name) == Lower(name) \in DOMAIN list
HeadersGet(list, name) == list[Lower(name)]

StringBody(text) == <<"string", text>>
StreamBody(text) == <<"stream", text>>

\* new Response(body, init): status defaults to 200; a string body with no
\* Content-Type given gets text/plain, a stream body gets none.
NewResponse(body, init) ==
  LET given == IF "headers" \in DOMAIN init THEN NewHeaders(init.headers) ELSE <<>>
      list == IF body[1] = "string" /\ ~HeadersHas(given, "Content-Type")
              THEN given @@ ("content-type" :> "text/plain;charset=UTF-8")
              ELSE given
  IN [status |-> IF "status" \in DOMAIN init THEN init.status ELSE 200,
      headers |-> list,
      body |-> body[2]]

\* response.ok
ResponseOk(status) == status \in 200..299

JsonContentType == PlainObject("Content-Type" :> "application/json")

corsHeaders ==
  PlainObject(("Access-Control-Allow-Origin" :> "*")
              @@ ("Access-Control-Allow-Methods" :> "GET,HEAD,POST,OPTIONS")
              @@ ("Access-Control-Allow-Headers" :> "Content-Type"))

\* Reading a property of null or undefined throws a TypeError.
CanRead(v) == v[1] \notin {"null", "undef"}

\* Property read v.key on a value that can be read: undefined when v has no
\* such property (the keys read here are never those of a string or array).
Get(v, key) ==
  IF v[1] = "obj" /\ \E j \in 1..Len(v[2]) : v[2][j][1] = key
  THEN v[2][CHOOSE j \in 1..Len(v[2]) : v[2][j][1] = key][2]
  ELSE JUndef

\* items?.length as a condition, and items[0]
HasLength(v) == v[1] \in {"arr", "str"} /\ v[2] # <<>>
First(v) == IF v[1] = "arr" THEN v[2][1] ELSE JStr(<<v[2][1]>>)

ErrorObject(m) == JObj(<< <<(<<"error">>), JStr(m)>> >>)

\* The 400 of both handlers: JSON.stringify without indentation.
MissingParameter(param) ==
  NewResponse(
    StringBody(JSONstringify(ErrorObject(<<param, " parameter is required">>), 0)),
    [status |-> 400, headers |-> JsonContentType])

\* The catch block of both handlers.
CatchResponse(e) ==
  NewResponse(
    StringBody(JSONstringify(
      ErrorObject(IF e[1] = "Error" THEN e[2] ELSE <<"An unknown error occurred">>), 2)),
    [headers |-> JsonContentType])

\* A catch block that handles Errors only and rethrows anything else.
Catch_ErrorsOnly(t) ==
  IF t[1] = "throw" /\ t[2][1] = "Error" THEN Ok(CatchResponse(t[2])) ELSE t

\* try { ... } catch (e) { return <the error response> }: whatever the try
\* block throws becomes a returned response.
Catch(t) == IF t[1] = "throw" THEN Ok(CatchResponse(t[2])) ELSE t

\* --------------------------------------------------------- getRecipeFromAI

\* The message of the TypeError thrown on reading a property of undefined
\* (choices[0] of an empty list, the image of an item that has none).
TypeErrorMsg == <<"Cannot read properties of undefined">>

\* Whether the try block reaches JSON.parse(recipeResponse.content).
RecipeParses(o) ==
  /\ o[1] = "ok"
  /\ o[2].choices # <<>>
  /\ o[2].choices[1].finish_reason # "length"
  /\ ~Truthy(o[2].choices[1].message.refusal)
  /\ Truthy(o[2].choices[1].message.content)

\* The try block with the refusal tested before the finish reason.
RecipeTry_RefusalFirst(o) ==
  IF o[1] = "throw" THEN o
  ELSE IF o[2].choices = <<>> THEN Throw(JError(TypeErrorMsg))
  ELSE IF Truthy(o[2].choices[1].message.refusal)
    THEN Throw(JError(<<"Model refused to provide a recipe">>))
  ELSE IF o[2].choices[1].finish_reason = "length"
    THEN Throw(JError(<<"Incomplete response">>))
  ELSE IF Truthy(o[2].choices[1].message.content) THEN
    LET p == JSONparse(o[2].choices[1].message.content[2])
    IN IF p[1] = "throw" THEN p
       ELSE Ok(NewResponse(StringBody(JSONstringify(p[2], 2)),
                           [headers |-> JsonContentType]))
  ELSE Throw(JError(<<"No response content">>))

\* The try block passing the content on as it came, neither parsed nor
\* serialized again.
RecipeTry_RawContent(o) ==
  IF o[1] = "throw" THEN o
  ELSE IF o[2].choices = <<>> THEN Throw(JError(TypeErrorMsg))
  ELSE IF o[2].choices[1].finish_reason = "length"
    THEN Throw(JError(<<"Incomplete response">>))
  ELSE IF Truthy(o[2].choices[1].message.refusal)
    THEN Throw(JError(<<"Model refused to provide a recipe">>))
  ELSE IF Truthy(o[2].choices[1].message.content) THEN
    LET p == JSONparse(o[2].choices[1].message.content[2])
    IN IF p[1] = "throw" THEN p
       ELSE Ok(NewResponse(StringBody(o[2].choices[1].message.content[2]),
                           [headers |-> JsonContentType]))
  ELSE Throw(JError(<<"No response content">>))

\* The try block after the await, given how chat.completions.create settled:
\* the response it returns, or what it throws.
RecipeTry(o) ==
  IF o[1] = "throw" THEN o
  ELSE IF o[2].choices = <<>> THEN Throw(JError(TypeErrorMsg))
  ELSE IF o[2].choices[1].finish_reason = "length"
    THEN Throw(JError(<<"Incomplete response">>))
  ELSE IF Truthy(o[2].choices[1].message.refusal)
    THEN Throw(JError(<<"Model refused to provide a recipe">>))
  ELSE IF Truthy(o[2].choices[1].message.content) THEN
    LET p == JSONparse(o[2].choices[1].message.content[2])
    IN IF p[1] = "throw" THEN p
       ELSE Ok(NewResponse(StringBody(JSONstringify(p[2], 2)),
                           [headers |-> JsonContentType]))
  ELSE Throw(JError(<<"No response content">>))

\* getRecipeFromAI after the await: the try block under its catch.  How the
\* handler's promise settles.
getRecipeFromAI(o) == Catch(RecipeTry(o))

\* --------------------------------------------------------- getImageFromWeb

GoogleApiError(status) == <<"Google API error: ", ToString(status)>>

\* The try block after `await response.json()` settled.
ImageTry(b) ==
  IF b[1] = "throw" THEN b
  ELSE LET p == JSONparse(b[2])
       IN IF p[1] = "throw" THEN p
          ELSE IF ~CanRead(p[2]) THEN Throw(JError(TypeErrorMsg))
          ELSE IF ~HasLength(Get(p[2], <<"items">>))
            THEN Throw(JError(<<"No results found on Google">>))
          ELSE LET item == First(Get(p[2], <<"items">>))
               IN IF ~CanRead(item) \/ ~CanRead(Get(item, <<"image">>))
                    THEN Throw(JError(TypeErrorMsg))
                  ELSE Ok(NewResponse(
                         StringBody(JSONstringify(
                           JObj(<< <<(<<"url">>), Get(item, <<"link">>)>>,
                                   <<(<<"thumb">>),
                                     Get(Get(item, <<"image">>), <<"thumbnailLink">>)>> >>),
                           2)),
                         [headers |-> JsonContentType]))

\* The step between the awaits without the test of response.ok.
ImageFetchTry_IgnoresStatus(o) ==
  IF o[1] = "throw" THEN o ELSE <<"await", <<>>>>

\* getImageFromWeb between its two awaits: how the try block goes on once the
\* search fetch settled.  "await" stands for reaching `await response.json()`.
ImageFetchTry(o) ==
  IF o[1] = "throw" THEN o
  ELSE IF ~ResponseOk(o[2].status) THEN Throw(JError(GoogleApiError(o[2].status)))
  ELSE <<"await", <<>>>>

getImageFromWebFetched(o) == Catch(ImageFetchTry(o))
getImageFromWeb(b) == Catch(ImageTry(b))

\* ------------------------------------------------------------------ router

\* new Response(response.body, { headers: { ...corsHeaders, ...response.headers } })
RouterWrap(response) ==
  NewResponse(StreamBody(response.body),
              [headers |-> Spread(corsHeaders, HeadersObject(response.headers))])

\* The 404 with its status left out.
NotFoundResponse_DefaultStatus ==
  NewResponse(StringBody(<<"Not found">>), [headers |-> corsHeaders])

NotFoundResponse ==
  NewResponse(StringBody(<<"Not found">>), [status |-> 404, headers |-> corsHeaders])

\* ------------------------------------------------------------------ schema

\* The fields the schema sent with the completion request requires, of the
\* recipe and of each ingredient (additionalProperties: false, strict: true).
schema ==
  [recipe |-> [required |-> {<<"name">>, <<"description">>, <<"ingredients">>,
                             <<"instructions">>}],
   ingredient |-> [required |-> {<<"name">>, <<"amount">>, <<"description">>}]]

\* ------------------------------------------------------------------ inputs

Plain == <<"Lasagna">>
Tricky == <<"say ", QUOTE, "hi", QUOTE, " ", BSL, NL, "{n}">>

Prop(k, v) == <<(<<k>>), v>>

IngredientA ==
  JObj(<<Prop("name", JStr(<<"pasta">>)), Prop("amount", JStr(<<"2 cups">>)),
         Prop("description", JStr(Plain))>>)
IngredientB ==
  JObj(<<Prop("name", JStr(Tricky)), Prop("amount", JStr(<<>>)),
         Prop("description", JStr(<<"a, b: [c]">>))>>)

RecipeOf(name, ings) ==
  JObj(<<Prop("name", JStr(name)),
         Prop("description", JStr(Tricky)),
         Prop("ingredients", JArr(ings)),
         Prop("instructions",
              JArr([i \in 1..Len(ings) |->
                      IF ings[i] = IngredientA THEN JStr(<<"Boil">>) ELSE JStr(Tricky)]))>>)

IngredientLists ==
  UNION {[1..n -> {IngredientA, IngredientB}] : n \in 0..MaxIngredients}

\* Values of the Recipe shape.
RecipeValues == {RecipeOf(n, ings) : n \in {Plain, Tricky}, ings \in IngredientLists}

\* JSON values of another shape: null, an error object, a recipe with a field
\* missing, a recipe with a field too many, an array, a string.
OtherValues ==
  { JNull,
    ErrorObject(<<"quota exceeded">>),
    JObj(<<Prop("name", JStr(Plain)), Prop("description", JStr(Plain)),
           Prop("ingredients", JArr(<<>>))>>),
    JObj(<<Prop("name", JStr(Plain)), Prop("imgUrl", JStr(<<"http://i">>)),
           Prop("description", JStr(Plain)), Prop("ingredients", JArr(<<>>)),
           Prop("instructions", JArr(<<>>))>>),
    JArr(<<JNull, JStr(Plain)>>),
    JStr(Tricky) }

\* Texts that are JSON: compact, indented, with other spacing, with a key twice.
ValidTexts ==
  {JSONstringify(v, 0) : v \in RecipeValues \cup OtherValues}
  \cup {JSONstringify(RecipeOf(Plain, <<>>), 2)}
  \cup { <<SP, "{", QUOTE, "name", QUOTE, SP, ":", NL, QUOTE, "x", QUOTE, ",", SP,
           QUOTE, "description", QUOTE, ":", "null", ",",
           QUOTE, "name", QUOTE, ":", QUOTE, "y", QUOTE, "}", NL>> }

\* Texts that are not JSON.
InvalidTexts ==
  { <<"not json">>,
    <<"{", QUOTE, "name", QUOTE, ":">>,
    <<"{", QUOTE, "name", QUOTE, ":", "null", ",", "}">>,
    <<QUOTE, BSL, "x", QUOTE>>,
    <<"null", "null">> }

ErrorsThrown == {JError(<<"Connection error.">>), JError(Tricky), NonError}

Choice(finish, refusal, content) ==
  [finish_reason |-> finish, message |-> [refusal |-> refusal, content |-> content]]

\* How chat.completions.create can settle.
AllCompletions ==
    {Throw(e) : e \in ErrorsThrown}
    \cup {Ok([choices |-> <<>>])}
    \cup {Ok([choices |-> <<Choice(f, r, c)>>]) :
            f \in {"stop", "length"},
            r \in {JNull, JStr(<<>>), JStr(<<"I cannot help with that">>)},
            c \in {JNull, JStr(<<>>)} \cup {JStr(t) : t \in ValidTexts \cup InvalidTexts}}

FewCompletions ==
    { Throw(JError(<<"Connection error.">>)),
      Ok([choices |-> <<Choice("stop", JNull, JStr(JSONstringify(RecipeOf(Plain, <<>>), 0)))>>]) }

Completions(rich) == IF rich THEN AllCompletions ELSE FewCompletions

\* How the search fetch can settle: a response with a status, or a rejection.
SearchResponses(rich) ==
  IF rich THEN {Throw(e) : e \in ErrorsThrown}
               \cup {Ok([status |-> st]) : st \in {200, 204, 301, 403, 500}}
  ELSE {Ok([status |-> st]) : st \in {200, 500}}

Item(link, thumb) ==
  JObj(<<Prop("link", JStr(<<link>>)),
         Prop("image", JObj(<<Prop("thumbnailLink", JStr(<<thumb>>))>>))>>)
ItemNoImage == JObj(<<Prop("link", JStr(<<"http://e">>))>>)

ItemLists ==
  UNION {[1..n -> {Item("http://a", "http://b"), Item("http://c", "http://d"), ItemNoImage}] :
           n \in 0..MaxItems}

\* How response.json() can settle, by the body it reads.
AllSearchBodies ==
    {Throw(JError(<<"terminated">>)), Throw(NonError)}
    \cup {Ok(t) : t \in InvalidTexts}
    \cup {Ok(JSONstringify(v, 0)) :
            v \in {JNull, JObj(<<>>), JObj(<<Prop("items", JNull)>>)}}
    \cup {Ok(JSONstringify(JObj(<<Prop("kind", JStr(<<"search">>)), Prop("items", JArr(l))>>), 0)) :
            l \in ItemLists}

FewSearchBodies ==
    {Ok(JSONstringify(JObj(<<Prop("items", JArr(l))>>), 0)) :
       l \in {<<>>, <<Item("http://a", "http://b")>>}}

SearchBodies(rich) == IF rich THEN AllSearchBodies ELSE FewSearchBodies

\* url.pathname and the two values of url.searchParams.get (null when absent).
Requests(rich) ==
  IF rich THEN
    [path : {"/getRecipe", "/getImage", "/foo", "/getRecipe/"},
     foodName : {JNull, JStr(<<>>), JStr(<<"lasagna">>)},
     foodOrIngName : {JNull, JStr(<<>>), JStr(<<"tomato">>)}]
  ELSE
    [path : {"/getRecipe", "/getImage", "/foo"},
     foodName : {JNull, JStr(<<"lasagna">>)},
     foodOrIngName : {JStr(<<>>), JStr(<<"lasagna">>)}]

\* ------------------------------------------------------------------- state

VARIABLES
  req,        \* the request each invocation of fetch got
  pc,         \* where each invocation stands
  calls,      \* the outbound calls each invocation has issued, in order
  completion, \* how chat.completions.create settled
  search,     \* how the search fetch settled
  searchBody, \* how response.json() settled
  parsed,     \* whether getRecipeFromAI ran JSON.parse on the content
  hresp,      \* the response the handler returned
  resp        \* the response fetch returned to the caller

vars == <<req, pc, calls, completion, search, searchBody, parsed, hresp, resp>>

Reqs == 1..NReq

None == <<"none", <<>>>>
NoRequest == [path |-> "", foodName |-> JNull, foodOrIngName |-> JNull]
NoResponse == [status |-> 0, headers |-> <<>>, body |-> <<>>]

Init ==
  /\ req = [r \in Reqs |-> NoRequest]
  /\ pc = [r \in Reqs |-> "idle"]
  /\ calls = [r \in Reqs |-> <<>>]
  /\ completion = [r \in Reqs |-> None]
  /\ search = [r \in Reqs |-> None]
  /\ searchBody = [r \in Reqs |-> None]
  /\ parsed = [r \in Reqs |-> FALSE]
  /\ hresp = [r \in Reqs |-> NoResponse]
  /\ resp = [r \in Reqs |-> NoResponse]

\* The runtime invokes fetch with a request.
Arrive(r, rich) ==
  /\ pc[r] = "idle"
  /\ \E q \in Requests(rich) : req' = [req EXCEPT ![r] = q]
  /\ pc' = [pc EXCEPT ![r] = "fetch"]
  /\ UNCHANGED <<calls, completion, search, searchBody, parsed, hresp, resp>>

\* fetch on /getRecipe, up to the first await of getRecipeFromAI: the
\* parameter check, then the call of chat.completions.create.
DispatchRecipe(r) ==
  /\ pc[r] = "fetch"
  /\ req[r].path = "/getRecipe"
  /\ IF ~Truthy(req[r].foodName)
     THEN /\ hresp' = [hresp EXCEPT ![r] = MissingParameter("foodName")]
          /\ pc' = [pc EXCEPT ![r] = "handlerDone"]
          /\ UNCHANGED calls
     ELSE /\ calls' = [calls EXCEPT ![r] = Append(@, "chat.completions.create")]
          /\ pc' = [pc EXCEPT ![r] = "awaitCreate"]
          /\ UNCHANGED hresp
  /\ UNCHANGED <<req, completion, search, searchBody, parsed, resp>>

\* fetch on /getImage, up to the first await of getImageFromWeb.
DispatchImage(r) ==
  /\ pc[r] = "fetch"
  /\ req[r].path # "/getRecipe"
  /\ req[r].path = "/getImage"
  /\ IF ~Truthy(req[r].foodOrIngName)
     THEN /\ hresp' = [hresp EXCEPT ![r] = MissingParameter("foodOrIngName")]
          /\ pc' = [pc EXCEPT ![r] = "handlerDone"]
          /\ UNCHANGED calls
     ELSE /\ calls' = [calls EXCEPT ![r] = Append(@, "fetch")]
          /\ pc' = [pc EXCEPT ![r] = "awaitFetch"]
          /\ UNCHANGED hresp
  /\ UNCHANGED <<req, completion, search, searchBody, parsed, resp>>

\* fetch on any other path.
NotFound(r) ==
  /\ pc[r] = "fetch"
  /\ req[r].path # "/getRecipe"
  /\ req[r].path # "/getImage"
  /\ resp' = [resp EXCEPT ![r] = NotFoundResponse]
  /\ pc' = [pc EXCEPT ![r] = "done"]
  /\ UNCHANGED <<req, calls, completion, search, searchBody, parsed, hresp>>

\* The handler's promise settles with h: fetch gets its response, or the
\* rejection passes through fetch's await.
HandlerSettles(r, h) ==
  IF h[1] = "ok"
  THEN /\ hresp' = [hresp EXCEPT ![r] = h[2]]
       /\ pc' = [pc EXCEPT ![r] = "handlerDone"]
  ELSE /\ pc' = [pc EXCEPT ![r] = "rejected"]
       /\ UNCHANGED hresp

\* A handler that issues the call again when it failed.
CreateSettles_Retries(r, rich) ==
  /\ pc[r] = "awaitCreate"
  /\ \E o \in Completions(rich) :
       IF o[1] = "throw" /\ Len(calls[r]) < 2
       THEN /\ calls' = [calls EXCEPT ![r] = Append(@, "chat.completions.create")]
            /\ UNCHANGED <<completion, parsed, hresp, pc>>
       ELSE /\ completion' = [completion EXCEPT ![r] = o]
            /\ parsed' = [parsed EXCEPT ![r] = RecipeParses(o)]
            /\ HandlerSettles(r, getRecipeFromAI(o))
            /\ UNCHANGED calls
  /\ UNCHANGED <<req, search, searchBody, resp>>

\* chat.completions.create settles; getRecipeFromAI runs to its end.
CreateSettles(r, rich) ==
  /\ pc[r] = "awaitCreate"
  /\ \E o \in Completions(rich) :
       /\ completion' = [completion EXCEPT ![r] = o]
       /\ parsed' = [parsed EXCEPT ![r] = RecipeParses(o)]
       /\ HandlerSettles(r, getRecipeFromAI(o))
  /\ UNCHANGED <<req, calls, search, searchBody, resp>>

\* The search fetch settles; getImageFromWeb runs to `await response.json()`,
\* or to its end when the fetch rejected or the status is no success.
FetchSettles(r, rich) ==
  /\ pc[r] = "awaitFetch"
  /\ \E o \in SearchResponses(rich) :
       /\ search' = [search EXCEPT ![r] = o]
       /\ IF getImageFromWebFetched(o)[1] = "await"
          THEN /\ pc' = [pc EXCEPT ![r] = "awaitJson"]
               /\ UNCHANGED hresp
          ELSE HandlerSettles(r, getImageFromWebFetched(o))
  /\ UNCHANGED <<req, calls, completion, searchBody, parsed, resp>>

\* response.json() settles; getImageFromWeb runs to its end.
JsonSettles(r, rich) ==
  /\ pc[r] = "awaitJson"
  /\ \E b \in SearchBodies(rich) :
       /\ searchBody' = [searchBody EXCEPT ![r] = b]
       /\ HandlerSettles(r, getImageFromWeb(b))
  /\ UNCHANGED <<req, calls, completion, search, parsed, resp>>

\* fetch resumes with the handler's response and returns the re-wrapped one.
Wrap(r) ==
  /\ pc[r] = "handlerDone"
  /\ resp' = [resp EXCEPT ![r] = RouterWrap(hresp[r])]
  /\ pc' = [pc EXCEPT ![r] = "done"]
  /\ UNCHANGED <<req, calls, completion, search, searchBody, parsed, hresp>>

Step(r, rich) ==
  \/ Arrive(r, rich)
  \/ DispatchRecipe(r)
  \/ DispatchImage(r)
  \/ NotFound(r)
  \/ CreateSettles(r, rich)
  \/ FetchSettles(r, rich)
  \/ JsonSettles(r, rich)
  \/ Wrap(r)

\* One request, every input.
Next == Step(1, TRUE)
Spec == Init /\ [][Next]_vars

\* NReq requests in flight, interleaved at their awaits.
NextConc == \E r \in Reqs : Step(r, FALSE)
SpecConc == Init /\ [][NextConc]_vars

\* ------------------------------------------------------------- properties

NonEmpty(v) == v[1] = "str" /\ v[2] # <<>>
Missing(v) == v[1] = "null" \/ (v[1] = "str" /\ v[2] = <<>>)
HandledPath(r) == req[r].path \in {"/getRecipe", "/getImage"}
ParamName(r) == IF req[r].path = "/getRecipe" THEN "foodName" ELSE "foodOrIngName"
Param(r) == IF req[r].path = "/getRecipe" THEN req[r].foodName ELSE req[r].foodOrIngName
\* The handler of request r has returned its response.
Returned(r) == pc[r] \in {"handlerDone", "done"} /\ HandledPath(r)

\* The response's body is JSON text for the value v.
BodyIs(response, v) == JSONparse(response.body) = Ok(v)
ErrorBody(response, m) == BodyIs(response, ErrorObject(m))
MissingBody(response, name) == ErrorBody(response, <<name, " parameter is required">>)
MessageOf(e) == IF e[1] = "Error" THEN e[2] ELSE <<"An unknown error occurred">>

\* The completion of request r came with a first choice.
HasChoice(r) ==
  /\ Returned(r)
  /\ completion[r][1] = "ok"
  /\ completion[r][2].choices # <<>>
FirstChoice(r) == completion[r][2].choices[1]
Content(r) == FirstChoice(r).message.content
\* The case of line 109: not truncated, no refusal, content that is JSON.
GoodContent(r) ==
  /\ HasChoice(r)
  /\ FirstChoice(r).finish_reason # "length"
  /\ ~NonEmpty(FirstChoice(r).message.refusal)
  /\ NonEmpty(Content(r))
  /\ JSONparse(Content(r)[2])[1] = "ok"

\* C1 as stated: the completion is read in the order truncated, refused,
\* content, nothing; truncation yields "Incomplete response" and a refusal
\* "Model refused to provide a recipe", neither parsing the content; any
\* non-empty content is parsed and returned as the success body; content that
\* is absent or empty yields "No response content".
C1_Original ==
  \A r \in Reqs : HasChoice(r) =>
    IF FirstChoice(r).finish_reason = "length"
      THEN ErrorBody(hresp[r], <<"Incomplete response">>) /\ ~parsed[r]
    ELSE IF NonEmpty(FirstChoice(r).message.refusal)
      THEN ErrorBody(hresp[r], <<"Model refused to provide a recipe">>) /\ ~parsed[r]
    ELSE IF NonEmpty(Content(r))
      THEN /\ parsed[r]
           /\ JSONparse(Content(r)[2])[1] = "ok"
           /\ JSONparse(hresp[r].body) = JSONparse(Content(r)[2])
    ELSE ErrorBody(hresp[r], <<"No response content">>)

\* C1 amended: as C1, but non-empty content is returned as the success body
\* only when it parses as JSON; when it does not parse, the result is the
\* error body with the parser's message.
C1_Precedence ==
  \A r \in Reqs : HasChoice(r) =>
    IF FirstChoice(r).finish_reason = "length"
      THEN ErrorBody(hresp[r], <<"Incomplete response">>) /\ ~parsed[r]
    ELSE IF NonEmpty(FirstChoice(r).message.refusal)
      THEN ErrorBody(hresp[r], <<"Model refused to provide a recipe">>) /\ ~parsed[r]
    ELSE IF NonEmpty(Content(r))
      THEN /\ parsed[r]
           /\ IF JSONparse(Content(r)[2])[1] = "ok"
              THEN JSONparse(hresp[r].body) = JSONparse(Content(r)[2])
              ELSE ErrorBody(hresp[r], SyntaxErrorMsg)
    ELSE ErrorBody(hresp[r], <<"No response content">>)

\* A truncated completion that also carries a refusal and content that is
\* JSON has been answered with "Incomplete response".
C1_Witness ==
  \E r \in Reqs :
    /\ HasChoice(r)
    /\ FirstChoice(r).finish_reason = "length"
    /\ NonEmpty(FirstChoice(r).message.refusal)
    /\ NonEmpty(Content(r))
    /\ JSONparse(Content(r)[2])[1] = "ok"
    /\ ErrorBody(hresp[r], <<"Incomplete response">>)

\* C2: the handler's response has status 400 and the missing-parameter body
\* exactly when the parameter is null or the empty string; for every other
\* input its status is 200, however the outbound call went.
C2_StatusAtHandler ==
  \A r \in Reqs : Returned(r) =>
    IF Missing(Param(r))
    THEN hresp[r].status = 400 /\ MissingBody(hresp[r], ParamName(r))
    ELSE hresp[r].status = 200 /\ ~MissingBody(hresp[r], ParamName(r))

\* getImageFromWeb has returned 400 for an empty foodOrIngName.
C2_Witness ==
  \E r \in Reqs :
    /\ pc[r] = "handlerDone"
    /\ req[r].path = "/getImage"
    /\ req[r].foodOrIngName = JStr(<<>>)
    /\ hresp[r].status = 400

\* C3: through fetch, a request to /getRecipe or /getImage whose parameter
\* is absent or empty is answered with status 400 and the missing-parameter
\* body: the caller gets the status the handler produced.
C3_StatusEndToEnd ==
  \A r \in Reqs : (pc[r] = "done" /\ HandledPath(r) /\ Missing(Param(r))) =>
    /\ resp[r].status = 400
    /\ resp[r].status = hresp[r].status
    /\ MissingBody(resp[r], ParamName(r))

\* C4: for a valid input neither handler rejects, whatever the outbound call
\* did; when the call or the parsing threw, the body is {error: m} with m the
\* thrown Error's message, or "An unknown error occurred" for another value.
C4_NeverThrows ==
  \A r \in Reqs :
    /\ pc[r] # "rejected"
    /\ Returned(r) =>
         /\ completion[r][1] = "throw" => ErrorBody(hresp[r], MessageOf(completion[r][2]))
         /\ (completion[r][1] = "ok" /\ completion[r][2].choices = <<>>)
              => ErrorBody(hresp[r], TypeErrorMsg)
         /\ (parsed[r] /\ JSONparse(Content(r)[2])[1] = "throw")
              => ErrorBody(hresp[r], SyntaxErrorMsg)
         /\ search[r][1] = "throw" => ErrorBody(hresp[r], MessageOf(search[r][2]))
         /\ searchBody[r][1] = "throw" => ErrorBody(hresp[r], MessageOf(searchBody[r][2]))
         /\ (searchBody[r][1] = "ok" /\ JSONparse(searchBody[r][2])[1] = "throw")
              => ErrorBody(hresp[r], SyntaxErrorMsg)
         /\ (searchBody[r][1] = "ok" /\ JSONparse(searchBody[r][2])[1] = "ok"
             /\ HasLength(Get(JSONparse(searchBody[r][2])[2], <<"items">>))
             /\ ~CanRead(Get(First(Get(JSONparse(searchBody[r][2])[2], <<"items">>)),
                             <<"image">>)))
              => ErrorBody(hresp[r], TypeErrorMsg)

\* The completion call rejected with a value that is no Error, and the
\* handler returned the fallback message.
C4_Witness ==
  \E r \in Reqs :
    /\ pc[r] = "handlerDone"
    /\ completion[r] = Throw(NonError)
    /\ ErrorBody(hresp[r], <<"An unknown error occurred">>)

\* What C5 says of each state: a request has issued no call before its
\* parameter was checked, one call (create on /getRecipe, the search fetch on
\* /getImage) from then on if the parameter is valid, none if it is missing or
\* the path is another, never a second one; and while the call is pending no
\* response exists yet.
C5_OneCall ==
  \A r \in Reqs :
    /\ Len(calls[r]) <= 1
    /\ calls[r] # <<>> <=>
         /\ pc[r] \notin {"idle", "fetch"}
         /\ HandledPath(r)
         /\ ~Missing(Param(r))
    /\ calls[r] # <<>> =>
         calls[r][1] = (IF req[r].path = "/getRecipe"
                        THEN "chat.completions.create" ELSE "fetch")
    /\ pc[r] \in {"awaitCreate", "awaitFetch", "awaitJson"} =>
         hresp[r] = NoResponse /\ resp[r] = NoResponse

\* What C5 says of each step: it belongs to one request and leaves everything
\* of the other requests as it was.
C5_OwnState ==
  \E r \in Reqs : \A o \in Reqs \ {r} :
    /\ req'[o] = req[o] /\ pc'[o] = pc[o] /\ calls'[o] = calls[o]
    /\ completion'[o] = completion[o] /\ search'[o] = search[o]
    /\ searchBody'[o] = searchBody[o] /\ parsed'[o] = parsed[o]
    /\ hresp'[o] = hresp[o] /\ resp'[o] = resp[o]

\* C5: in every interleaving of concurrent requests, a request with a valid
\* parameter makes exactly one outbound call, after the check and before its
\* response; one with a missing parameter makes none; no call is retried;
\* requests share nothing, identical ones each make their own call.
C5_ExactlyOneCall == [] C5_OneCall /\ [][C5_OwnState]_vars

\* Two identical requests, both answered after a failed call, each with one
\* call of its own.
C5_Witness ==
  \E r, o \in Reqs :
    /\ r # o
    /\ req[r] = req[o]
    /\ req[r].path = "/getRecipe"
    /\ pc[r] = "done" /\ pc[o] = "done"
    /\ completion[r][1] = "throw" /\ completion[o][1] = "throw"
    /\ calls[r] = <<"chat.completions.create">>
    /\ calls[o] = <<"chat.completions.create">>

\* The search fetch of request r resolved with a response.
HasStatus(r) == Returned(r) /\ search[r][1] = "ok"
\* ... and its body was read and is a JSON object.
HasData(r) ==
  /\ searchBody[r][1] = "ok"
  /\ JSONparse(searchBody[r][2])[1] = "ok"
  /\ JSONparse(searchBody[r][2])[2][1] = "obj"
Items(r) == Get(JSONparse(searchBody[r][2])[2], <<"items">>)
Contains(m, u) == \E i \in 1..Len(m) : m[i] = u
\* The body is {error: m} with a message that holds the status code.
ErrorWithStatus(response, status) ==
  LET b == JSONparse(response.body)
  IN /\ b[1] = "ok"
     /\ b[2][1] = "obj"
     /\ Len(b[2][2]) = 1
     /\ Get(b[2], <<"error">>)[1] = "str"
     /\ Contains(Get(b[2], <<"error">>)[2], ToString(status))

\* C6 as stated: a status that is no success yields an error naming the
\* status, the body unread; else no or empty items yields "No results found
\* on Google"; else the result is {url, thumb} of the first item, whatever
\* that item and the later ones are.
C6_Original ==
  \A r \in Reqs : HasStatus(r) =>
    IF ~(search[r][2].status \in 200..299)
    THEN searchBody[r] = None /\ ErrorWithStatus(hresp[r], search[r][2].status)
    ELSE HasData(r) =>
      IF Items(r)[1] # "arr" \/ Items(r)[2] = <<>>
      THEN ErrorBody(hresp[r], <<"No results found on Google">>)
      ELSE LET b == JSONparse(hresp[r].body)
           IN /\ b[1] = "ok"
              /\ Get(b[2], <<"error">>) = JUndef
              /\ Get(b[2], <<"url">>) = Get(Items(r)[2][1], <<"link">>)
              /\ Get(b[2], <<"thumb">>)
                   = Get(Get(Items(r)[2][1], <<"image">>), <<"thumbnailLink">>)

\* C6 amended: as C6, but the result is {url, thumb} of the first item only
\* when that item is an object with an image object; when it has no image the
\* result is the error body with the TypeError's message.
C6_Order ==
  \A r \in Reqs : HasStatus(r) =>
    IF ~(search[r][2].status \in 200..299)
    THEN searchBody[r] = None /\ ErrorWithStatus(hresp[r], search[r][2].status)
    ELSE HasData(r) =>
      IF Items(r)[1] # "arr" \/ Items(r)[2] = <<>>
      THEN ErrorBody(hresp[r], <<"No results found on Google">>)
      ELSE IF Items(r)[2][1][1] = "obj" /\ Get(Items(r)[2][1], <<"image">>)[1] = "obj"
      THEN BodyIs(hresp[r],
             JObj(<<Prop("url", Get(Items(r)[2][1], <<"link">>)),
                    Prop("thumb", Get(Get(Items(r)[2][1], <<"image">>),
                                      <<"thumbnailLink">>))>>))
      ELSE ErrorBody(hresp[r], TypeErrorMsg)

\* A search response with two different items was answered with the first.
C6_Witness ==
  \E r \in Reqs :
    /\ HasStatus(r) /\ HasData(r)
    /\ Items(r)[1] = "arr" /\ Len(Items(r)[2]) >= 2
    /\ Items(r)[2][1] = Item("http://a", "http://b")
    /\ Items(r)[2][2] = Item("http://c", "http://d")
    /\ BodyIs(hresp[r], JObj(<<Prop("url", JStr(<<"http://a">>)),
                              Prop("thumb", JStr(<<"http://b">>))>>))

\* C7: every response fetch returns carries the three cross-origin headers,
\* and every one with a JSON body (those of the two handlers) also carries
\* Content-Type: application/json.
C7_Headers ==
  \A r \in Reqs : pc[r] = "done" =>
    /\ HeadersHas(resp[r].headers, "Access-Control-Allow-Origin")
    /\ HeadersGet(resp[r].headers, "Access-Control-Allow-Origin") = "*"
    /\ HeadersHas(resp[r].headers, "Access-Control-Allow-Methods")
    /\ HeadersGet(resp[r].headers, "Access-Control-Allow-Methods") = "GET,HEAD,POST,OPTIONS"
    /\ HeadersHas(resp[r].headers, "Access-Control-Allow-Headers")
    /\ HeadersGet(resp[r].headers, "Access-Control-Allow-Headers") = "Content-Type"
    /\ HandledPath(r) =>
         /\ HeadersHas(resp[r].headers, "Content-Type")
         /\ HeadersGet(resp[r].headers, "Content-Type") = "application/json"

\* C8: a request to a path other than /getRecipe and /getImage gets 404 "Not
\* found" whatever its parameters, with no handler run and no outbound call;
\* a request to /getRecipe or /getImage never gets a 404.
C8_NotFound ==
  \A r \in Reqs : pc[r] # "idle" =>
    IF HandledPath(r)
    THEN resp[r].status # 404
    ELSE /\ pc[r] \in {"fetch", "done"}
         /\ calls[r] = <<>>
         /\ hresp[r] = NoResponse
         /\ pc[r] = "done" => resp[r].status = 404 /\ resp[r].body = <<"Not found">>

\* A request to /foo with a valid foodName was answered 404.
C8_Witness ==
  \E r \in Reqs :
    /\ pc[r] = "done"
    /\ req[r].path = "/foo"
    /\ NonEmpty(req[r].foodName)
    /\ resp[r].status = 404

\* C9: for content that is JSON (not truncated, not refused) the handler
\* returns status 200 and the 2-space-indented serialization of the parsed
\* content, and parsing that body gives the parsed content back: fields,
\* ingredients and steps in their order, nothing added, removed or rewritten.
C9_RoundTrip ==
  \A r \in Reqs : GoodContent(r) =>
    /\ hresp[r].status = 200
    /\ hresp[r].body = JSONstringify(JSONparse(Content(r)[2])[2], 2)
    /\ JSONparse(hresp[r].body) = JSONparse(Content(r)[2])

\* A recipe with two different ingredients and strings that need escaping
\* came back equal, from compact content to an indented body.
C9_Witness ==
  \E r \in Reqs :
    /\ GoodContent(r)
    /\ Content(r)[2] = JSONstringify(RecipeOf(Tricky, <<IngredientB, IngredientA>>), 0)
    /\ hresp[r].body # Content(r)[2]
    /\ BodyIs(hresp[r], RecipeOf(Tricky, <<IngredientB, IngredientA>>))

\* The Recipe shape of the schema: exactly the required fields, each of its
\* type, no other.
IsString(v) == v[1] = "str"
Keys(v) == {v[2][j][1] : j \in 1..Len(v[2])}
Conforms(v, sch) ==
  /\ v[1] = "obj"
  /\ Keys(v) = sch.required
  /\ Len(v[2]) = Cardinality(sch.required)
IsIngredient(v) ==
  /\ Conforms(v, schema.ingredient)
  /\ \A k \in schema.ingredient.required : IsString(Get(v, k))
IsRecipe(v) ==
  /\ Conforms(v, schema.recipe)
  /\ IsString(Get(v, <<"name">>))
  /\ IsString(Get(v, <<"description">>))
  /\ Get(v, <<"ingredients">>)[1] = "arr"
  /\ \A i \in 1..Len(Get(v, <<"ingredients">>)[2]) :
       IsIngredient(Get(v, <<"ingredients">>)[2][i])
  /\ Get(v, <<"instructions">>)[1] = "arr"
  /\ \A i \in 1..Len(Get(v, <<"instructions">>)[2]) :
       IsString(Get(v, <<"instructions">>)[2][i])

\* The handler returned from its try block (line 109), not from its catch.
SuccessBody(r) ==
  /\ Returned(r)
  /\ completion[r] # None
  /\ RecipeTry(completion[r])[1] = "ok"

\* C10: every success body of getRecipeFromAI is a Recipe; content that is
\* JSON of another shape (a field missing, a field too many, null, an object
\* {error: ...}) is never returned as a success body.
C10_OnlyRecipes ==
  \A r \in Reqs : SuccessBody(r) =>
    /\ JSONparse(hresp[r].body)[1] = "ok"
    /\ IsRecipe(JSONparse(hresp[r].body)[2])

====
